---------------------------- MODULE Spec2Model ----------------------------
(***************************************************************************)
(* Model of the PII matching engine of apps/web/app/actions.ts:            *)
(* createSearchVariants, createPiiMatch, findFlexibleMatches,              *)
(* fuzzyMatchPII and mapPiiToBbox.                                         *)
(*                                                                         *)
(* A JavaScript string is a sequence of one-character strings.  A number   *)
(* that the code computes as a quotient (a confidence) is the pair         *)
(* [num, den] of integers and is compared by cross multiplication.         *)
(***************************************************************************)
EXTENDS Integers, Sequences, FiniteSets, TLC

VARIABLES
    words,            \* parameter words: WordInfo[]
    piiList,          \* parameter piiList: { text, label }[]
    piiData,          \* the result list under construction
    piiIdCounter,     \* let piiIdCounter
    phraseIdx,        \* position of piiList.forEach (1-based)
    pc,               \* position inside the forEach callback
    searchVariants,   \* const searchVariants of the current phrase
    foundPositions,   \* const foundPositions of the current phrase
    instanceCount,    \* let instanceCount of the current phrase
    flexibleMatches,  \* const flexibleMatches, the result of findFlexibleMatches
    fuzzyCandidates,  \* the array matches of fuzzyMatchPII before sort/filter
    matchedIdx        \* word indices passed to createPiiMatch for each
                      \* element of piiData (kept beside piiData)

vars == << words, piiList, piiData, piiIdCounter, phraseIdx, pc,
           searchVariants, foundPositions, instanceCount, flexibleMatches,
           fuzzyCandidates, matchedIdx >>

---------------------------------------------------------------------------
(* Characters *)

UpperLetters == << "A", "B", "C", "D", "E", "F", "G", "H", "I", "J", "K", "L", "M",
                   "N", "O", "P", "Q", "R", "S", "T", "U", "V", "W", "X", "Y", "Z" >>

LowerLetters == << "a", "b", "c", "d", "e", "f", "g", "h", "i", "j", "k", "l", "m",
                   "n", "o", "p", "q", "r", "s", "t", "u", "v", "w", "x", "y", "z" >>

Digits == { "0", "1", "2", "3", "4", "5", "6", "7", "8", "9" }

Range(s) == { s[i] : i \in DOMAIN s }

\* /[A-Za-z]/ and /[A-Z]/i
IsLetter(c) == c \in Range(UpperLetters) \cup Range(LowerLetters)

\* /\d/
IsDigit(c) == c \in Digits

\* a character that /[^a-zA-Z0-9]/ does not match
IsAlnum(c) == IsLetter(c) \/ IsDigit(c)

\* The characters of /\s/ and of trim(): space, tab, line feed, carriage
\* return, form feed, then U+000B (line tabulation), U+00A0 (no-break
\* space), U+1680 and U+FEFF.  /\s/ also takes U+2000..U+200A, U+2028,
\* U+2029, U+202F, U+205F and U+3000, which a string of this language cannot
\* hold.
WhiteSpace == { " ", "\t", "\n", "\r", "\f",
                "", " ", " ", "﻿" }

\* /\s/
IsSpace(c) == c \in WhiteSpace

\* toLowerCase left out: the character as it is
ToLowerCharIdentity(c) == c

\* String.prototype.toLowerCase on one character
ToLowerChar(c) ==
    IF c \in Range(UpperLetters)
    THEN LowerLetters[CHOOSE k \in DOMAIN UpperLetters : UpperLetters[k] = c]
    ELSE c

toLowerCase(s) == [k \in DOMAIN s |-> ToLowerChar(s[k])]

---------------------------------------------------------------------------
(* Sequences *)

RECURSIVE Flatten(_)
\* Array.prototype.join("") of strings, flatMap of arrays
Flatten(ss) == IF ss = << >> THEN << >> ELSE Head(ss) \o Flatten(Tail(ss))

\* Array.prototype.slice(from, to) with 0-based from (inclusive), to (exclusive)
Slice(s, from, to) ==
    LET a == IF from < 0 THEN 0 ELSE from
        b == IF to > Len(s) THEN Len(s) ELSE to
    IN  IF b <= a THEN << >> ELSE [k \in 1..(b - a) |-> s[a + k]]

\* Array.prototype.map
Map(Op(_), s) == [k \in DOMAIN s |-> Op(s[k])]

\* Op(v) with v evaluated once, before the call, as JavaScript evaluates the
\* argument of a call
CallByValue(Op(_), v) == CHOOSE r \in { Op(x) : x \in { v } } : TRUE

---------------------------------------------------------------------------
(* Text normalization and tokenization *)

\* word.replace(/[^a-zA-Z0-9]/g, "")
Normalize(s) == SelectSeq(s, IsAlnum)

\* String.prototype.trim
RECURSIVE TrimLeft(_)
TrimLeft(s) == IF s # << >> /\ IsSpace(Head(s)) THEN TrimLeft(Tail(s)) ELSE s

RECURSIVE TrimRight(_)
TrimRight(s) ==
    IF s # << >> /\ IsSpace(s[Len(s)]) THEN TrimRight(SubSeq(s, 1, Len(s) - 1)) ELSE s

Trim(s) == TrimRight(TrimLeft(s))

RECURSIVE SplitFrom(_, _, _)
\* the scan of split(/\s+/): k is the next character, cur the piece being
\* read, inGap whether the previous character was white space
SplitFrom(s, cur, inGap) ==
    IF s = << >> THEN << cur >>
    ELSE IF IsSpace(Head(s))
         THEN IF inGap THEN SplitFrom(Tail(s), cur, TRUE)
                       ELSE << cur >> \o SplitFrom(Tail(s), << >>, TRUE)
         ELSE SplitFrom(Tail(s), Append(cur, Head(s)), FALSE)

\* String.prototype.split(/\s+/): "" gives [""], a leading or trailing run of
\* white space gives an empty first or last piece
SplitWs(s) == SplitFrom(s, << >>, FALSE)

\* piiText.trim().split(/\s+/).map(word => word.replace(/[^a-zA-Z0-9]/g, ""))
NormalizedWords(piiText) == Map(Normalize, SplitWs(Trim(piiText)))

\* .replace(/([A-Za-z])(\d)/g, "$1 $2").replace(/(\d)([A-Za-z])/g, "$1 $2")
IsBoundary(c1, c2) == (IsLetter(c1) /\ IsDigit(c2)) \/ (IsDigit(c1) /\ IsLetter(c2))

RECURSIVE InsertSpaces(_)
InsertSpaces(s) ==
    IF Len(s) < 2 THEN s
    ELSE IF IsBoundary(s[1], s[2])
         THEN << s[1], " " >> \o InsertSpaces(Tail(s))
         ELSE << s[1] >> \o InsertSpaces(Tail(s))

\* const spacedVariant
SpacedVariant(singleWord) == Map(Normalize, SplitWs(InsertSpaces(singleWord)))

\* .replace(/-/g, " ").replace(/[,_.]/g, " ")
SeparatorToSpace(c) == IF c \in { "-", ",", "_", "." } THEN " " ELSE c

\* const expandHyphens
ExpandHyphens(piiText) ==
    LET IsNonEmpty(w) == Len(w) > 0
    IN  SelectSeq(Map(Normalize, SplitWs(Trim(Map(SeparatorToSpace, piiText)))),
                  IsNonEmpty)

---------------------------------------------------------------------------
(* createSearchVariants *)

\* normalizedWords[0].length >= 4
MinSplitLength == 4

\* word.length >= 6
MinThreeWayLength == 6

\* word[i-1], word[i] of the loop at 0-based index i
BoundaryAt(word, i) == IsBoundary(word[i], word[i + 1])

\* the last part cut with word.slice(j + 1)
ThreeWaySplitSkipChar(word, i) ==
    LET js == { j \in (i + 2)..(Len(word) - 1) : BoundaryAt(word, j) }
    IN  IF js = { } THEN << >>
        ELSE LET j == CHOOSE m \in js : \A o \in js : m <= o
             IN  << << Slice(word, 0, i), Slice(word, i, j), Slice(word, j + 1, Len(word)) >> >>

\* the inner loop over j: the first j >= i + 2 at a boundary, then break
ThreeWaySplit(word, i) ==
    LET js == { j \in (i + 2)..(Len(word) - 1) : BoundaryAt(word, j) }
    IN  IF js = { } THEN << >>
        ELSE LET j == CHOOSE m \in js : \A o \in js : m <= o
             IN  << << Slice(word, 0, i), Slice(word, i, j), Slice(word, j, Len(word)) >> >>

\* the 3-way split tried only where i is itself a boundary
SplitsAtBoundaryOnly(word, i) ==
    IF BoundaryAt(word, i)
    THEN << << Slice(word, 0, i), Slice(word, i, Len(word)) >> >>
         \o (IF Len(word) >= MinThreeWayLength /\ i >= 2 /\ i <= Len(word) - 2
             THEN ThreeWaySplit(word, i)
             ELSE << >>)
    ELSE << >>

\* one iteration of the loop over i: what it pushes on possibleSplits
SplitsAt(word, i) ==
    (IF BoundaryAt(word, i)
     THEN << << Slice(word, 0, i), Slice(word, i, Len(word)) >> >>
     ELSE << >>)
    \o
    (IF Len(word) >= MinThreeWayLength /\ i >= 2 /\ i <= Len(word) - 2
     THEN ThreeWaySplit(word, i)
     ELSE << >>)

\* const possibleSplits, after the forEach that keeps the splits of more than
\* one part whose parts are all non-empty
PossibleSplits(word) ==
    LET Keep(split) == Len(split) > 1 /\ \A k \in DOMAIN split : Len(split[k]) > 0
    IN  SelectSeq(Flatten([i \in 1..(Len(word) - 1) |-> SplitsAt(word, i)]), Keep)

\* variants.filter((variant, index) => variants.findIndex(v => same) === index)
RemoveDuplicates(variants) ==
    LET First(k) == \A m \in 1..(k - 1) : variants[m] # variants[k]
        idx == { k \in DOMAIN variants : First(k) }
        F[k \in 0..Len(variants)] ==
            IF k = 0 THEN << >>
            ELSE IF k \in idx THEN Append(F[k - 1], variants[k]) ELSE F[k - 1]
    IN  F[Len(variants)]

\* the length condition of variant 5 left out
SplitEligibleAnyLength(normalizedWords) == Len(normalizedWords) = 1

\* normalizedWords.length === 1 && normalizedWords[0].length >= 4
SplitEligible(normalizedWords) ==
    Len(normalizedWords) = 1 /\ Len(normalizedWords[1]) >= MinSplitLength

createSearchVariants(piiText) ==
    LET normalizedWords == NormalizedWords(piiText)
        variant1 == << normalizedWords >>
        variant2 == IF Len(normalizedWords) > 1
                    THEN << << Flatten(normalizedWords) >> >> ELSE << >>
        spacedVariant == SpacedVariant(normalizedWords[1])
        variant3 == IF Len(normalizedWords) = 1 /\ Len(spacedVariant) > 1
                    THEN << spacedVariant >> ELSE << >>
        expandHyphens == ExpandHyphens(piiText)
        variant4 == IF expandHyphens # normalizedWords
                    THEN << expandHyphens >> ELSE << >>
        variant5 == IF SplitEligible(normalizedWords)
                    THEN PossibleSplits(normalizedWords[1]) ELSE << >>
    IN  RemoveDuplicates(variant1 \o variant2 \o variant3 \o variant4 \o variant5)

---------------------------------------------------------------------------
(* Numbers *)

RECURSIVE Gcd(_, _)
Gcd(a, b) == IF b = 0 THEN a ELSE Gcd(b, a % b)

\* the number num/den (den > 0), in lowest terms so that equal numbers are
\* equal values
Ratio(num, den) ==
    LET g == Gcd(num, den)
    IN  IF g = 0 THEN [num |-> 0, den |-> 1] ELSE [num |-> num \div g, den |-> den \div g]

\* a >= b on numbers
RatioGeq(a, b) == a.num * b.den >= b.num * a.den

\* a > b on numbers
RatioGt(a, b) == a.num * b.den > b.num * a.den

\* Math.min(...xs) and Math.max(...xs) of a non-empty array
MinOf(xs) == CHOOSE m \in Range(xs) : \A o \in Range(xs) : m <= o

MaxOf(xs) == CHOOSE m \in Range(xs) : \A o \in Range(xs) : m >= o

---------------------------------------------------------------------------
(* createPiiMatch *)

\* typeof v.x === 'number' alone
IsValidVertexXOnly(v) == v.xNum

\* typeof v.x === 'number' && typeof v.y === 'number'
IsValidVertex(v) == v.xNum /\ v.yNum

\* const validVertices
ValidVertices(wordSlice) ==
    LET Vertices(w) == w.vertices
    IN  SelectSeq(Flatten(Map(Vertices, wordSlice)), IsValidVertex)

\* the box measured from the first vertex of the first word
BBoxFromFirstVertex(validVertices) ==
    LET X(v) == v.x
        Y(v) == v.y
        x0 == validVertices[1].x
        y0 == validVertices[1].y
    IN  << x0, y0, MaxOf(Map(X, validVertices)) - x0, MaxOf(Map(Y, validVertices)) - y0 >>

\* const bbox
BBoxOf(validVertices) ==
    LET X(v) == v.x
        Y(v) == v.y
        xCoords == Map(X, validVertices)
        yCoords == Map(Y, validVertices)
        x0 == MinOf(xCoords)
        y0 == MinOf(yCoords)
        x1 == MaxOf(xCoords)
        y1 == MaxOf(yCoords)
    IN  << x0, y0, x1 - x0, y1 - y0 >>

\* if (validVertices.length === 0) return null
ReturnsNull(validVertices) == Len(validVertices) = 0

\* the early return left out: without a valid vertex the box is the empty one
createPiiMatchNeverNull(wordSlice, id, pii, confidence, matchType) ==
    LET validVertices == ValidVertices(wordSlice)
    IN  << [ id         |-> id,
             label      |-> pii.label,
             text       |-> pii.text,
             bbox       |-> IF validVertices = << >> THEN << 0, 0, 0, 0 >>
                            ELSE BBoxOf(validVertices),
             vertices   |-> validVertices,
             redacted   |-> TRUE,
             confidence |-> confidence,
             matchType  |-> matchType ] >>

\* The result is << >> for null and << record >> for a match object.
createPiiMatch(wordSlice, id, pii, confidence, matchType) ==
    LET validVertices == ValidVertices(wordSlice)
    IN  IF ReturnsNull(validVertices) THEN << >>
        ELSE << [ id         |-> id,
                  label      |-> pii.label,
                  text       |-> pii.text,
                  bbox       |-> BBoxOf(validVertices),
                  vertices   |-> validVertices,
                  redacted   |-> TRUE,
                  confidence |-> confidence,
                  matchType  |-> matchType ] >>

\* The matchType strings.  `exact variant: ${JSON.stringify(variant)}`
ExactType(variant) == [kind |-> "exact", variant |-> variant, n |-> Len(variant)]

\* `flexible match (${flexMatch.matchedWords.length} words)`
FlexibleType(matchedWords) == [kind |-> "flexible", variant |-> << >>, n |-> Len(matchedWords)]

\* (confidence * 100).toFixed(1) prints the decimal nearest to the double
\* confidence * 100, the larger one at a tie.  The double differs from the
\* number num/den * 100 by less than 10^-13, so the two round alike unless
\* num/den * 100 is itself a tie k + 0.05, that is for den = 16, 80, 400 or
\* 2000 in lowest terms.  For den = 16 the double is the tie and rounds up.
\* The tables list, by denominator, the numerators for which the double
\* (1 - (den - num)/den) * 100 lies below the tie and rounds down.
RoundsDown80 ==
    { 1, 3, 11, 13, 21, 23, 31, 41, 51 }

RoundsDown400 ==
    { 1, 3, 7, 9, 11, 13, 17, 19, 21, 51, 53, 57, 59, 61, 63, 101, 103, 107,
      109, 111, 113, 151, 153, 157, 201, 239, 243, 247, 251, 289 }

RoundsDown2000 ==
    { 1, 3, 7, 9, 11, 13, 17, 19, 21, 23, 27, 29, 31, 33, 37, 39, 41, 43, 47,
      49, 51, 53, 57, 59, 61, 63, 67, 69, 71, 73, 77, 79, 81, 83, 87, 89, 91,
      93, 97, 99, 101, 103, 107, 109, 111, 113, 117, 119, 121, 127, 251, 253,
      257, 259, 261, 263, 267, 269, 271, 273, 277, 279, 281, 283, 287, 289,
      291, 293, 297, 299, 301, 303, 307, 309, 311, 313, 317, 319, 321, 323,
      327, 329, 331, 333, 337, 339, 341, 343, 347, 349, 351, 353, 357, 359,
      363, 369, 373, 379, 383, 389, 501, 503, 507, 509, 511, 513, 517, 519,
      521, 523, 527, 529, 531, 533, 537, 539, 541, 543, 547, 549, 551, 553,
      557, 559, 561, 563, 567, 569, 571, 573, 577, 579, 581, 583, 587, 589,
      591, 593, 597, 599, 601, 603, 607, 609, 613, 619, 623, 629, 633, 639,
      641, 643, 653, 663, 751, 753, 757, 759, 761, 763, 767, 769, 771, 773,
      777, 779, 781, 783, 787, 789, 791, 793, 797, 799, 801, 803, 807, 809,
      811, 813, 817, 819, 821, 823, 827, 829, 831, 833, 839, 841, 843, 849,
      851, 853, 861, 863, 871, 873, 881, 883, 891, 893, 903, 913, 1001, 1009,
      1013, 1017, 1021, 1029, 1033, 1037, 1041, 1049, 1053, 1057, 1061, 1063,
      1067, 1069, 1071, 1073, 1077, 1079, 1081, 1083, 1089, 1091, 1093, 1099,
      1101, 1103, 1111, 1113, 1121, 1123, 1131, 1133, 1141, 1143, 1153, 1163,
      1191, 1199, 1203, 1207, 1211, 1219, 1223, 1227, 1231, 1239, 1243, 1247,
      1251, 1259, 1263, 1267, 1271, 1279, 1283, 1287, 1291, 1303, 1307, 1311,
      1313, 1317, 1321, 1323, 1327, 1331, 1333, 1337, 1341, 1347, 1351, 1357,
      1361, 1367, 1371, 1377, 1381, 1387, 1391, 1397, 1401, 1407, 1411, 1421,
      1431, 1441, 1449, 1451, 1453, 1457, 1461, 1469, 1473, 1477, 1481, 1489,
      1493, 1497, 1501, 1509, 1513, 1517, 1521, 1529, 1533, 1537, 1541, 1543,
      1547, 1551, 1553, 1557, 1561, 1563, 1567, 1571, 1573, 1577, 1581, 1583,
      1587, 1591, 1597, 1601, 1607, 1611, 1617, 1621, 1627, 1631, 1637, 1641,
      1647, 1651, 1657, 1661, 1671, 1681, 1691, 1701, 1711, 1719, 1723, 1727,
      1731, 1739, 1743, 1747, 1751, 1759, 1763, 1767, 1769, 1771, 1773, 1777,
      1779, 1781, 1783, 1787, 1791, 1793, 1797, 1801, 1803, 1807, 1811, 1813,
      1817, 1821, 1823, 1827, 1831, 1833, 1837, 1841, 1847, 1851, 1857, 1861,
      1867, 1871, 1877, 1881, 1887, 1891, 1897, 1901, 1907, 1911, 1921, 1931,
      1941, 1951, 1961 }

\* the double confidence * 100 lies below a tie of the first decimal
TieRoundsDown(confidence) ==
    \/ confidence.den = 80 /\ confidence.num \in RoundsDown80
    \/ confidence.den = 400 /\ confidence.num \in RoundsDown400
    \/ confidence.den = 2000 /\ confidence.num \in RoundsDown2000

\* `fuzzy match (${(confidence * 100).toFixed(1)}%)`: n is the percentage
\* printed, in tenths
FuzzyType(confidence) ==
    [kind |-> "fuzzy", variant |-> << >>,
     n |-> (2000 * confidence.num + confidence.den) \div (2 * confidence.den)
             - (IF TieRoundsDown(confidence) THEN 1 ELSE 0)]

\* const wordMap: the word texts normalized, the bounding boxes kept
WordMap(ws) == [k \in DOMAIN ws |-> [text |-> Normalize(ws[k].text), vertices |-> ws[k].vertices]]

\* the texts of wordMap.slice(i, i + n)
SliceText(wordMap, i, n) ==
    LET Text(w) == w.text IN Map(Text, Slice(wordMap, i, i + n))

---------------------------------------------------------------------------
(* mapPiiToBbox, step 1: exact matching with variants *)

\* What the loops of mapPiiToBbox read and write: st.found is foundPositions,
\* st.count instanceCount, st.data piiData, st.idc piiIdCounter, st.idx the
\* word indices given to createPiiMatch for each element of st.data.
\* unshift in place of push
EmitFirst(st, match, phrase, positions) ==
    IF match = << >> THEN st
    ELSE [st EXCEPT !.data = match \o st.data,
                    !.idx  = << [phrase |-> phrase, positions |-> positions] >> \o st.idx]

\* piiData.push(match), with the phrase and the word indices of the record
Emit(st, match, phrase, positions) ==
    IF match = << >> THEN st
    ELSE [st EXCEPT !.data = st.data \o match,
                    !.idx  = Append(st.idx, [phrase |-> phrase, positions |-> positions])]

\* for (let j = 0; j < n; j++) foundPositions.add(i + j)
MarkWindow(found, i, n) == found \cup { i + j : j \in 0..(n - 1) }

\* the positions i, ..., i + n - 1 of a window, in order
Window(i, n) == [j \in 1..n |-> i + j - 1]

\* piiIdCounter passed without the ++
ExactAtKeepCounter(wordMap, pii, phrase, variant, st, i) ==
    IF i \in st.found THEN st
    ELSE IF SliceText(wordMap, i, Len(variant)) # variant THEN st
    ELSE LET wordSlice == Slice(wordMap, i, i + Len(variant))
             match == createPiiMatch(wordSlice, st.idc, pii, Ratio(1, 1), ExactType(variant))
             st1 == [st EXCEPT !.count = st.count + 1,
                               !.found = st.found \cup { i }]
             st2 == Emit(st1, match, phrase, Window(i, Len(variant)))
         IN  [st2 EXCEPT !.found = MarkWindow(st2.found, i, Len(variant))]

\* the body of the loop over i for one variant
ExactAt(wordMap, pii, phrase, variant, st, i) ==
    IF i \in st.found THEN st
    ELSE IF SliceText(wordMap, i, Len(variant)) # variant THEN st
    ELSE LET wordSlice == Slice(wordMap, i, i + Len(variant))
             match == createPiiMatch(wordSlice, st.idc, pii, Ratio(1, 1), ExactType(variant))
             st1 == [st EXCEPT !.count = st.count + 1,
                               !.found = st.found \cup { i },
                               !.idc   = st.idc + 1]
             st2 == Emit(st1, match, phrase, Window(i, Len(variant)))
         IN  [st2 EXCEPT !.found = MarkWindow(st2.found, i, Len(variant))]

RECURSIVE ExactScanFirstHit(_, _, _, _, _, _)
\* the loop over i with a break after the first window that equals the variant
ExactScanFirstHit(wordMap, pii, phrase, variant, st, i) ==
    IF i > Len(wordMap) - Len(variant) THEN st
    ELSE IF i \notin st.found /\ SliceText(wordMap, i, Len(variant)) = variant
         THEN ExactAt(wordMap, pii, phrase, variant, st, i)
         ELSE ExactScanFirstHit(wordMap, pii, phrase, variant, st, i + 1)

RECURSIVE ExactScan(_, _, _, _, _, _)
\* for (let i = 0; i <= wordMap.length - variant.length; i++)
ExactScan(wordMap, pii, phrase, variant, st, i) ==
    IF i > Len(wordMap) - Len(variant) THEN st
    ELSE IF i \in st.found
         THEN ExactScan(wordMap, pii, phrase, variant, st, i + 1)
         ELSE ExactScan(wordMap, pii, phrase, variant,
                        ExactAt(wordMap, pii, phrase, variant, st, i), i + 1)

RECURSIVE ExactStage(_, _, _, _, _)
\* for (const variant of searchVariants)
ExactStage(wordMap, pii, phrase, variants, st) ==
    IF variants = << >> THEN st
    ELSE ExactStage(wordMap, pii, phrase, Tail(variants),
                    ExactScan(wordMap, pii, phrase, Head(variants), st, 0))

---------------------------------------------------------------------------
(* findFlexibleMatches *)

\* if (variant.length < 3) continue
MinFlexibleWords == 3

\* span <= 20
MaxFlexibleSpan == 20

\* Math.max(0.7, 1 - (span / 100)), in hundredths
FlexibleFloor == 70

\* .slice(0, 3)
MaxFlexibleMatches == 3

\* the indices (0-based, ascending) of the words whose text is targetWord
PositionsOf(wordMap, targetWord) ==
    LET F[k \in 0..Len(wordMap)] ==
            IF k = 0 THEN << >>
            ELSE IF wordMap[k].text = targetWord THEN Append(F[k - 1], k - 1) ELSE F[k - 1]
    IN  F[Len(wordMap)]

\* const wordPositions
WordPositions(wordMap, variant) == [k \in DOMAIN variant |-> PositionsOf(wordMap, variant[k])]

\* span < 20 in place of span <= 20
SpanAcceptedBelow(span) == span < MaxFlexibleSpan

\* the test of the span left out
SpanAcceptedAlways(span) == TRUE

\* span <= 20
SpanAccepted(span) == span <= MaxFlexibleSpan

\* Math.min in place of Math.max
FlexibleConfidenceMin(span) ==
    Ratio(IF 100 - span < FlexibleFloor THEN 100 - span ELSE FlexibleFloor, 100)

\* const confidence = Math.max(0.7, 1 - (span / 100))
FlexibleConfidence(span) ==
    Ratio(IF 100 - span > FlexibleFloor THEN 100 - span ELSE FlexibleFloor, 100)

\* the branch wordIndex >= variant.length of findCombinations: the matches
\* it pushes for a complete combination
CompleteCombination(wordMap, variant, found, currentCombination) ==
    IF Len(currentCombination) # Len(variant) THEN << >>
    ELSE LET span == MaxOf(currentCombination) - MinOf(currentCombination) + 1
         IN  IF SpanAccepted(span) /\ Range(currentCombination) \cap found = { }
             THEN << [ words        |-> [k \in DOMAIN currentCombination |->
                                             wordMap[currentCombination[k] + 1]],
                       confidence   |-> FlexibleConfidence(span),
                       matchedWords |-> variant,
                       positions    |-> currentCombination ] >>
             ELSE << >>

RECURSIVE FindCombinations(_, _, _, _, _, _)
RECURSIVE TryPositions(_, _, _, _, _, _, _)
\* findCombinations(wordIndex, currentCombination, usedPositions); usedPositions
\* is always the set of the positions of currentCombination
FindCombinations(wordMap, variant, wordPositions, found, wordIndex, currentCombination) ==
    IF wordIndex >= Len(variant)
    THEN CompleteCombination(wordMap, variant, found, currentCombination)
    ELSE TryPositions(wordMap, variant, wordPositions, found, wordIndex,
                      currentCombination, wordPositions[wordIndex + 1])

\* for (const position of wordPositions[wordIndex]), from the positions left
TryPositions(wordMap, variant, wordPositions, found, wordIndex, currentCombination, left) ==
    IF left = << >> THEN << >>
    ELSE (IF Head(left) \notin Range(currentCombination)
          THEN FindCombinations(wordMap, variant, wordPositions, found, wordIndex + 1,
                                Append(currentCombination, Head(left)))
          ELSE << >>)
         \o TryPositions(wordMap, variant, wordPositions, found, wordIndex,
                         currentCombination, Tail(left))

\* the variants of fewer than 4 words skipped, as the trigger of step 2 has it
FlexibleForVariantLong(wordMap, variant, found) ==
    IF Len(variant) < 4 THEN << >>
    ELSE LET wordPositions == WordPositions(wordMap, variant)
         IN  IF \E k \in DOMAIN wordPositions : Len(wordPositions[k]) = 0 THEN << >>
             ELSE FindCombinations(wordMap, variant, wordPositions, found, 0, << >>)

\* the body of for (const variant of searchVariants): the matches pushed
FlexibleForVariant(wordMap, variant, found) ==
    IF Len(variant) < MinFlexibleWords THEN << >>
    ELSE LET wordPositions == WordPositions(wordMap, variant)
         IN  IF \E k \in DOMAIN wordPositions : Len(wordPositions[k]) = 0 THEN << >>
             ELSE FindCombinations(wordMap, variant, wordPositions, found, 0, << >>)

RECURSIVE InsertByConfidence(_, _)
\* where a stable sort with (a, b) => b.confidence - a.confidence puts m among
\* the elements that came before it
InsertByConfidence(sorted, m) ==
    IF sorted = << >> THEN << m >>
    ELSE IF RatioGt(m.confidence, Head(sorted).confidence)
         THEN << m >> \o sorted
         ELSE << Head(sorted) >> \o InsertByConfidence(Tail(sorted), m)

\* Array.prototype.sort((a, b) => b.confidence - a.confidence), which is stable
SortByConfidence(matches) ==
    LET F[k \in 0..Len(matches)] ==
            IF k = 0 THEN << >> ELSE InsertByConfidence(F[k - 1], matches[k])
    IN  F[Len(matches)]

findFlexibleMatches(variants, wordMap, found) ==
    LET PerVariant(variant) == FlexibleForVariant(wordMap, variant, found)
        matches == Flatten(Map(PerVariant, variants))
    IN  Slice(SortByConfidence(matches), 0, MaxFlexibleMatches)

---------------------------------------------------------------------------
(* mapPiiToBbox, step 2: flexible multi-word matching *)

\* searchVariants.some(variant => variant.length >= 4)
FlexibleTriggerLength == 4

\* the test of instanceCount left out
FlexibleConditionAnyCount(variants, count) ==
    \E k \in DOMAIN variants : Len(variants[k]) >= FlexibleTriggerLength

\* searchVariants.some(variant => variant.length >= 4) && instanceCount === 0
FlexibleCondition(variants, count) ==
    (\E k \in DOMAIN variants : Len(variants[k]) >= FlexibleTriggerLength) /\ count = 0

\* the body of for (const flexMatch of flexibleMatches)
FlexibleAt(pii, phrase, st, flexMatch) ==
    LET match == createPiiMatch(flexMatch.words, st.idc, pii, flexMatch.confidence,
                                FlexibleType(flexMatch.matchedWords))
        st1 == [st EXCEPT !.idc = st.idc + 1]
    IN  IF match = << >> THEN st1
        ELSE LET st2 == Emit(st1, match, phrase, flexMatch.positions)
             IN  [st2 EXCEPT !.count = st2.count + 1,
                             !.found = st2.found \cup Range(flexMatch.positions)]

RECURSIVE FlexibleLoop(_, _, _, _)
\* for (const flexMatch of flexibleMatches)
FlexibleLoop(pii, phrase, st, matches) ==
    IF matches = << >> THEN st
    ELSE FlexibleLoop(pii, phrase, FlexibleAt(pii, phrase, st, Head(matches)), Tail(matches))

FlexibleStage(wordMap, pii, phrase, variants, st) ==
    IF FlexibleCondition(variants, st.count)
    THEN CallByValue(LAMBDA matches : FlexibleLoop(pii, phrase, st, matches),
                     findFlexibleMatches(variants, wordMap, st.found))
    ELSE st

---------------------------------------------------------------------------
(* fuzzyMatchPII *)

\* span <= Math.min(5, words.length)
MaxFuzzySpan == 5

\* fuzzyMatchPII(pii.text, wordMap, 0.85), in hundredths
FuzzyThreshold == 85

\* threshold = 0.8, the default of the parameter, in hundredths; the one call
\* of fuzzyMatchPII passes 0.85 in its place
DefaultThreshold == 80

\* if (instanceCount < 2)
FuzzyInstanceLimit == 2

Min3(a, b, c) == IF a <= b /\ a <= c THEN a ELSE IF b <= c THEN b ELSE c

RECURSIVE LevRow(_, _, _, _)
\* one row of the edit-distance table: prev is the row of the previous
\* character of a (entries 0..Len(b), stored at 1..Len(b)+1), acc the part
\* of the new row already computed, entries 0..Len(acc)-1
LevRow(prev, ch, b, acc) ==
    LET j == Len(acc)
    IN  IF j > Len(b) THEN acc
        ELSE LevRow(prev, ch, b,
                    Append(acc, Min3(prev[j + 1] + 1,
                                     acc[j] + 1,
                                     prev[j] + (IF b[j] = ch THEN 0 ELSE 1))))

RECURSIVE LevRows(_, _, _)
\* the rows after prev, which is the row of the first prev[1] characters of a
LevRows(a, b, prev) ==
    LET i == prev[1] + 1
    IN  IF i > Len(a) THEN prev[Len(b) + 1]
        ELSE LevRows(a, b, LevRow(prev, a[i], b, << i >>))

\* distance(a, b) of fastest-levenshtein: the Levenshtein edit distance
distance(a, b) == LevRows(a, b, [j \in 1..(Len(b) + 1) |-> j - 1])

\* const normalizedPii
NormalizedPii(piiText) == toLowerCase(Normalize(piiText))

\* const candidate: the window's texts normalized, lower-cased and joined
Candidate(ws, i, span) ==
    LET Clean(w) == toLowerCase(Normalize(w.text))
    IN  Flatten(Map(Clean, Slice(ws, i, i + span)))

\* 1 - distance / Math.max(a.length, b.length); 0/0 is NaN and is kept as 0/0
Similarity(normalizedPii, candidate) ==
    LET m == IF Len(normalizedPii) > Len(candidate) THEN Len(normalizedPii) ELSE Len(candidate)
    IN  IF m = 0 THEN [num |-> 0, den |-> 0]
        ELSE Ratio(m - distance(normalizedPii, candidate), m)

\* similarity > threshold in place of >=
MeetsThresholdStrictly(similarity, threshold) ==
    similarity.den # 0 /\ 100 * similarity.num > threshold * similarity.den

\* similarity >= threshold (false for NaN), the threshold in hundredths
MeetsThreshold(similarity, threshold) ==
    similarity.den # 0 /\ 100 * similarity.num >= threshold * similarity.den

\* the body of the loops over span and i: the matches pushed
FuzzyAt(normalizedPii, ws, threshold, span, i) ==
    LET candidate == Candidate(ws, i, span)
    IN  IF Len(candidate) > 0
           /\ MeetsThreshold(Similarity(normalizedPii, candidate), threshold)
        THEN << [ position     |-> i,
                  confidence   |-> Similarity(normalizedPii, candidate),
                  matchedWords |-> span ] >>
        ELSE << >>

\* const matches, before the sort and the filter
FuzzyMatches(piiText, ws, threshold) ==
    LET normalizedPii == NormalizedPii(piiText)
        maxSpan == IF Len(ws) < MaxFuzzySpan THEN Len(ws) ELSE MaxFuzzySpan
        ForSpan(span) ==
            Flatten([k \in 1..(Len(ws) - span + 1) |->
                        FuzzyAt(normalizedPii, ws, threshold, span, k - 1)])
    IN  Flatten([span \in 1..maxSpan |-> ForSpan(span)])

\* Math.abs(prev.position - match.position) < Math.max(prev.matchedWords, match.matchedWords)
Overlapping(prev, match) ==
    LET d == IF prev.position >= match.position
             THEN prev.position - match.position ELSE match.position - prev.position
        w == IF prev.matchedWords >= match.matchedWords
             THEN prev.matchedWords ELSE match.matchedWords
    IN  d < w

\* .filter((match, index, arr) => !arr.slice(0, index).some(prev => overlapping))
RemoveOverlapping(arr) ==
    LET Keep(k) == ~ \E m \in 1..(k - 1) : Overlapping(arr[m], arr[k])
        F[k \in 0..Len(arr)] ==
            IF k = 0 THEN << >>
            ELSE IF Keep(k) THEN Append(F[k - 1], arr[k]) ELSE F[k - 1]
    IN  F[Len(arr)]

\* the value returned, from the array matches
FuzzySelect(matches) == RemoveOverlapping(SortByConfidence(matches))

fuzzyMatchPII(piiText, ws, threshold) ==
    CallByValue(FuzzySelect, FuzzyMatches(piiText, ws, threshold))

---------------------------------------------------------------------------
(* mapPiiToBbox, step 3: fuzzy matching *)

\* if (instanceCount < 2)
FuzzyCondition(count) == count < FuzzyInstanceLimit

\* the check of foundPositions left out
FuzzySkippedNever(found, fuzzyMatch) == FALSE

\* if (foundPositions.has(fuzzyMatch.position)) continue
FuzzySkipped(found, fuzzyMatch) == fuzzyMatch.position \in found

\* the body of for (const fuzzyMatch of fuzzyMatches)
FuzzyMatchAt(wordMap, pii, phrase, st, fuzzyMatch) ==
    IF FuzzySkipped(st.found, fuzzyMatch) THEN st
    ELSE LET wordSlice == Slice(wordMap, fuzzyMatch.position,
                                fuzzyMatch.position + fuzzyMatch.matchedWords)
             match == createPiiMatch(wordSlice, st.idc, pii, fuzzyMatch.confidence,
                                     FuzzyType(fuzzyMatch.confidence))
             st1 == [st EXCEPT !.idc = st.idc + 1]
         IN  IF match = << >> THEN st1
             ELSE LET st2 == Emit(st1, match, phrase,
                                  Window(fuzzyMatch.position, fuzzyMatch.matchedWords))
                  IN  [st2 EXCEPT !.count = st2.count + 1,
                                  !.found = MarkWindow(st2.found, fuzzyMatch.position,
                                                       fuzzyMatch.matchedWords)]

RECURSIVE FuzzyLoop(_, _, _, _, _)
\* for (const fuzzyMatch of fuzzyMatches)
FuzzyLoop(wordMap, pii, phrase, st, fuzzyMatches) ==
    IF fuzzyMatches = << >> THEN st
    ELSE IF FuzzySkipped(st.found, Head(fuzzyMatches))
         THEN FuzzyLoop(wordMap, pii, phrase, st, Tail(fuzzyMatches))
         ELSE FuzzyLoop(wordMap, pii, phrase,
                        FuzzyMatchAt(wordMap, pii, phrase, st, Head(fuzzyMatches)),
                        Tail(fuzzyMatches))

\* the array matches of the call fuzzyMatchPII(pii.text, wordMap, 0.85)
FuzzyScan(wordMap, pii) == FuzzyMatches(pii.text, wordMap, FuzzyThreshold)

FuzzyStage(wordMap, pii, phrase, st) ==
    IF FuzzyCondition(st.count)
    THEN CallByValue(LAMBDA fuzzyMatches : FuzzyLoop(wordMap, pii, phrase, st, fuzzyMatches),
                     CallByValue(FuzzySelect, FuzzyScan(wordMap, pii)))
    ELSE st

---------------------------------------------------------------------------
(* Inputs: the word lists and phrase lists a call is made with *)

\* the longest word list drawn from a vocabulary
MaxWords == 3

\* the longest phrase list
MaxPhrases == 2

\* the longest run of filler words between the parts of a scattered phrase
MaxGap == 16

\* the longest phrase text enumerated over letters, digits and separators
MaxPhraseLen == 4

\* the longest single-token phrase text enumerated over letters and digits
MaxTokenLen == 7

SeqsUpTo(S, n) == UNION { [1..m -> S] : m \in 0..n }

\* a polygon vertex with both coordinates, without x, without y
V(x, y) == [x |-> x, y |-> y, xNum |-> TRUE, yNum |-> TRUE]

NoX(y) == [x |-> 0, y |-> y, xNum |-> FALSE, yNum |-> TRUE]

NoY(x) == [x |-> x, y |-> 0, xNum |-> TRUE, yNum |-> FALSE]

\* boundingBox?.vertices ?? [] of the k-th word of a page laid out as:
\*   box      every word an upright box on one line
\*   rotated  slanted quadrilaterals on alternating lines, first vertex not
\*            the top-left one
\*   partial  odd words with two good vertices among bad ones, even words
\*            without a bounding box or without a complete vertex
\*   third    every third word an upright box, the others without a
\*            bounding box
\*   none     no word with a complete vertex
LayoutVertices(layout, k) ==
    CASE layout = "box" ->
            << V(10 * k, 0), V(10 * k + 8, 0), V(10 * k + 8, 5), V(10 * k, 5) >>
      [] layout = "rotated" ->
            LET bx == 10 * (k % 2)
                by == 7 * k
            IN  << V(bx + 3, by), V(bx + 9, by + 2), V(bx + 6, by + 6), V(bx, by + 4) >>
      [] layout = "partial" ->
            IF k % 2 = 1 THEN << V(10 * k + 8, 5), NoX(0), V(10 * k, 0), NoY(10 * k) >>
            ELSE IF k % 4 = 2 THEN << >> ELSE << NoX(1), NoY(2) >>
      [] layout = "third" ->
            IF k % 3 = 0
            THEN << V(10 * k, 0), V(10 * k + 8, 0), V(10 * k + 8, 5), V(10 * k, 5) >>
            ELSE << >>
      [] OTHER ->
            IF k % 2 = 1 THEN << >> ELSE << NoX(k), NoY(k) >>

MkWords(texts, layout) ==
    [k \in DOMAIN texts |-> [text |-> texts[k], vertices |-> LayoutVertices(layout, k)]]

\* the label the classifier gives a phrase
LabelOf(text) == IF \E k \in DOMAIN text : IsDigit(text[k]) THEN "License Plate" ELSE "Name"

MkPii(texts) == [k \in DOMAIN texts |-> [text |-> texts[k], label |-> LabelOf(texts[k])]]

\* Scenario groups: OCR vocabularies with the phrases searched in them
Groups ==
    { [ vocab   |-> { << "H","E","L","L","O" >>, << "W","O","R","L","D" >> },
        phrases |-> { << "H","e","l","l","o"," ","W","o","r","l","d" >>,
                      << "H","E","L","L","A" >> },
        layouts |-> { "box" } ],
      [ vocab   |-> { << "A","F" >>, << "1","2" >>, << "H","P","V" >> },
        phrases |-> { << "A","F","1","2","H","P","V" >> },
        layouts |-> { "box" } ],
      [ vocab   |-> { << "a","b" >>, << "a" >>, << "b","a" >> },
        phrases |-> { << "a"," ","b","a" >> },
        layouts |-> { "box", "rotated" } ],
      [ vocab   |-> { << "a","1","a","1" >>, << "a","1" >> },
        phrases |-> { << "a","1","a","1","a","1" >>, << "a","1","a","1","\n","a","1" >> },
        layouts |-> { "box" } ],
      [ vocab   |-> { << "J","0","H","N" >>, << "A","F","1","2","H","P","Y" >> },
        phrases |-> { << "J","O","H","N" >>, << "A","F","1","2","H","P","V" >> },
        layouts |-> { "box" } ],
      [ vocab   |-> { << "-" >>, << "a","b" >> },
        phrases |-> { << "-" >>, << "a","b"," ","-" >>, << "-"," ","a","b" >> },
        layouts |-> { "box", "partial" } ],
      [ vocab   |-> { << "C","L","A","C","T","O","N" >>, << "O","N" >>, << "S","E","A","." >> },
        phrases |-> { << "C","L","A","C","T","O","N","-","O","N","-","S","E","A" >> },
        layouts |-> { "rotated" } ],
      [ vocab   |-> { << "a","1" >>, << "b","2" >>, << "c","3" >> },
        phrases |-> { << "a","1","b","2","c","3" >> },
        layouts |-> { "box" } ],
      [ vocab   |-> { << "A","B","C","D","E","F","G","H","I","J" >>,
                      << "K","L","M","N","O","P","Q","X","Y","Z" >> },
        phrases |-> { << "A","B","C","D","E","F","G","H","I","J",
                         "K","L","M","N","O","P","Q","R","S","T" >> },
        layouts |-> { "box" } ],
      [ vocab   |-> { << "A","F","1","2","H","P","V" >>, << "A","F","1","2","H","P","Y" >> },
        phrases |-> { << "A","F","1","2","H","P","V" >> },
        layouts |-> { "third" } ],
      [ vocab   |-> { << "A","F","1","2","H","P","V" >>, << "A" >>,
                      << "F","1","2","H","P","V" >> },
        phrases |-> { << "A","F","1","2","H","P","V" >> },
        layouts |-> { "box" } ] }

GroupInputs(g) ==
    { [words |-> MkWords(ts, l), piiList |-> MkPii(ps)] :
        ts \in SeqsUpTo(g.vocab, MaxWords), ps \in SeqsUpTo(g.phrases, MaxPhrases),
        l \in g.layouts }

\* A phrase of four words scattered over a page: its first three words, a
\* run of filler words, then its last word twice
GapWords(gap) ==
    << << "a" >>, << "b" >>, << "c" >> >> \o [k \in 1..gap |-> << "x" >>]
        \o << << "d" >>, << "d" >> >>

GapInputs ==
    { [words |-> MkWords(GapWords(gap), l),
       piiList |-> MkPii(<< << "a"," ","b"," ","c"," ","d" >> >>)] :
        gap \in 0..MaxGap, l \in { "box", "partial", "none" } }

\* A phrase of four words found scattered, with a filler word or without,
\* and once more as a single upper-case word that lost its last letter
MixedInputs ==
    { [words |-> MkWords(<< << "a","b" >>, << "c","d" >> >> \o filler
                          \o << << "e","f" >>, << "g","h" >>,
                                << "A","B","C","D","E","F","G" >> >>, "box"),
       piiList |-> MkPii(<< << "a","b"," ","c","d"," ","e","f"," ","g","h" >> >>)] :
        filler \in { << >>, << << "x" >> >> } }

\* Every phrase text up to a length, searched on a page without words
EnumPhrases ==
    SeqsUpTo({ "A", "1", "-", " " }, MaxPhraseLen)
        \cup SeqsUpTo({ "A", " ", "\t" }, MaxPhraseLen)
        \cup SeqsUpTo({ "A", "1" }, MaxTokenLen)

EnumInputs == { [words |-> << >>, piiList |-> MkPii(<< p >>)] : p \in EnumPhrases }

Inputs ==
    UNION { GroupInputs(g) : g \in Groups } \cup GapInputs \cup MixedInputs \cup EnumInputs

---------------------------------------------------------------------------
(* mapPiiToBbox as a state machine: the steps of the forEach callback      *)

\* the record the stage operators read and write, from the variables
State == [found |-> foundPositions, count |-> instanceCount, data |-> piiData,
          idc |-> piiIdCounter, idx |-> matchedIdx]

Install(st) ==
    /\ foundPositions' = st.found
    /\ instanceCount' = st.count
    /\ piiData' = st.data
    /\ piiIdCounter' = st.idc
    /\ matchedIdx' = st.idx

Init ==
    \E in \in Inputs :
        /\ words = in.words
        /\ piiList = in.piiList
        /\ piiData = << >>
        /\ piiIdCounter = 0
        /\ phraseIdx = 1
        /\ pc = "variants"
        /\ searchVariants = << >>
        /\ foundPositions = { }
        /\ instanceCount = 0
        /\ flexibleMatches = << >>
        /\ fuzzyCandidates = << >>
        /\ matchedIdx = << >>

\* foundPositions declared outside the callback: the positions claimed for
\* the phrases before stay claimed
VariantsSharedFound ==
    /\ pc = "variants"
    /\ phraseIdx <= Len(piiList)
    /\ searchVariants' = createSearchVariants(piiList[phraseIdx].text)
    /\ instanceCount' = 0
    /\ flexibleMatches' = << >>
    /\ fuzzyCandidates' = << >>
    /\ pc' = "exact"
    /\ UNCHANGED << words, piiList, piiData, piiIdCounter, phraseIdx, matchedIdx,
                    foundPositions >>

\* the callback starts on the next phrase: instanceCount, searchVariants and
\* foundPositions are its locals
Variants ==
    /\ pc = "variants"
    /\ phraseIdx <= Len(piiList)
    /\ searchVariants' = createSearchVariants(piiList[phraseIdx].text)
    /\ foundPositions' = { }
    /\ instanceCount' = 0
    /\ flexibleMatches' = << >>
    /\ fuzzyCandidates' = << >>
    /\ pc' = "exact"
    /\ UNCHANGED << words, piiList, piiData, piiIdCounter, phraseIdx, matchedIdx >>

\* step 1: the loops over the variants and the window starts
Exact ==
    /\ pc = "exact"
    /\ Install(ExactStage(WordMap(words), piiList[phraseIdx], phraseIdx, searchVariants, State))
    /\ pc' = "flexible"
    /\ UNCHANGED << words, piiList, phraseIdx, searchVariants, flexibleMatches,
                    fuzzyCandidates >>

\* step 2, the condition holds: const flexibleMatches = findFlexibleMatches(...)
FlexibleCall ==
    /\ pc = "flexible"
    /\ FlexibleCondition(searchVariants, instanceCount)
    /\ flexibleMatches' = findFlexibleMatches(searchVariants, WordMap(words), foundPositions)
    /\ pc' = "flexibleLoop"
    /\ UNCHANGED << words, piiList, piiData, piiIdCounter, phraseIdx, searchVariants,
                    foundPositions, instanceCount, fuzzyCandidates, matchedIdx >>

\* step 2, the condition fails
FlexibleSkip ==
    /\ pc = "flexible"
    /\ ~ FlexibleCondition(searchVariants, instanceCount)
    /\ pc' = "fuzzy"
    /\ UNCHANGED << words, piiList, piiData, piiIdCounter, phraseIdx, searchVariants,
                    foundPositions, instanceCount, flexibleMatches, fuzzyCandidates,
                    matchedIdx >>

\* step 2: for (const flexMatch of flexibleMatches)
FlexibleAccept ==
    /\ pc = "flexibleLoop"
    /\ Install(FlexibleLoop(piiList[phraseIdx], phraseIdx, State, flexibleMatches))
    /\ pc' = "fuzzy"
    /\ UNCHANGED << words, piiList, phraseIdx, searchVariants, flexibleMatches,
                    fuzzyCandidates >>

\* step 3, the condition holds: fuzzyMatchPII builds its array matches
FuzzyCall ==
    /\ pc = "fuzzy"
    /\ FuzzyCondition(instanceCount)
    /\ fuzzyCandidates' = FuzzyScan(WordMap(words), piiList[phraseIdx])
    /\ pc' = "fuzzyLoop"
    /\ UNCHANGED << words, piiList, piiData, piiIdCounter, phraseIdx, searchVariants,
                    foundPositions, instanceCount, flexibleMatches, matchedIdx >>

\* step 3, the condition fails: the callback returns
FuzzySkip ==
    /\ pc = "fuzzy"
    /\ ~ FuzzyCondition(instanceCount)
    /\ pc' = "variants"
    /\ phraseIdx' = phraseIdx + 1
    /\ UNCHANGED << words, piiList, piiData, piiIdCounter, searchVariants,
                    foundPositions, instanceCount, flexibleMatches, fuzzyCandidates,
                    matchedIdx >>

\* step 3: fuzzyMatchPII sorts and filters, then for (const fuzzyMatch of
\* fuzzyMatches); the callback returns
FuzzyAccept ==
    /\ pc = "fuzzyLoop"
    /\ Install(FuzzyLoop(WordMap(words), piiList[phraseIdx], phraseIdx, State,
                         FuzzySelect(fuzzyCandidates)))
    /\ pc' = "variants"
    /\ phraseIdx' = phraseIdx + 1
    /\ UNCHANGED << words, piiList, searchVariants, flexibleMatches, fuzzyCandidates >>

\* return piiData
Return ==
    /\ pc = "variants"
    /\ phraseIdx > Len(piiList)
    /\ pc' = "done"
    /\ UNCHANGED << words, piiList, piiData, piiIdCounter, phraseIdx, searchVariants,
                    foundPositions, instanceCount, flexibleMatches, fuzzyCandidates,
                    matchedIdx >>

Next ==
    \/ Variants
    \/ Exact
    \/ FlexibleCall
    \/ FlexibleSkip
    \/ FlexibleAccept
    \/ FuzzyCall
    \/ FuzzySkip
    \/ FuzzyAccept
    \/ Return

Spec == Init /\ [][Next]_vars

---------------------------------------------------------------------------
(* mapPiiToBbox as a function of its arguments *)

\* one run of the forEach callback, on phrase number `phrase` of the list,
\* from the result list, id counter and index list it finds
PhraseCallback(wordMap, pii, phrase, data, idc, idx) ==
    LET st0 == [found |-> { }, count |-> 0, data |-> data, idc |-> idc, idx |-> idx]
        Steps(variants) ==
            LET Step3(st2) == FuzzyStage(wordMap, pii, phrase, st2)
                Step2(st1) ==
                    CallByValue(Step3, FlexibleStage(wordMap, pii, phrase, variants, st1))
            IN  CallByValue(Step2, ExactStage(wordMap, pii, phrase, variants, st0))
    IN  CallByValue(Steps, createSearchVariants(pii.text))

RECURSIVE ForEachPhrase(_, _, _, _)
ForEachPhrase(wordMap, pl, phrase, st) ==
    IF phrase > Len(pl) THEN st
    ELSE CallByValue(LAMBDA next : ForEachPhrase(wordMap, pl, phrase + 1, next),
                     PhraseCallback(wordMap, pl[phrase], phrase, st.data, st.idc, st.idx))

\* the list mapPiiToBbox(piiList, words) returns
mapPiiToBbox(pl, ws) ==
    LET Run(wordMap) ==
            ForEachPhrase(wordMap, pl, 1,
                          [found |-> { }, count |-> 0, data |-> << >>, idc |-> 0,
                           idx |-> << >>]).data
    IN  CallByValue(Run, WordMap(ws))

---------------------------------------------------------------------------
(* Properties *)

\* the indices of the elements of piiData that phrase number k produced
RecordsOf(k) == { j \in DOMAIN matchedIdx : matchedIdx[j].phrase = k }

\* the word indices the j-th element of piiData covers
Covered(j) == Range(matchedIdx[j].positions)

\* the phrases the callback has finished
Finished == 1..(phraseIdx - 1)

\* the normalized texts of the words
WordTexts == [k \in DOMAIN words |-> Normalize(words[k].text)]

\* C1: no two records produced for the same phrase, whatever their
\* strategies, cover a common word index.
C1_NoSharedWordIndex ==
    \A i, j \in DOMAIN matchedIdx :
        (i # j /\ matchedIdx[i].phrase = matchedIdx[j].phrase)
            => Covered(i) \cap Covered(j) = { }

\* the call under way was made with the words HELLO and WORLD, each with
\* valid vertices, and the single phrase "Hello World"
C2_HelloWorldCall ==
    /\ Len(words) = 2
    /\ words[1].text = << "H","E","L","L","O" >>
    /\ words[2].text = << "W","O","R","L","D" >>
    /\ \A k \in DOMAIN words : ValidVertices(<< words[k] >>) # << >>
    /\ Len(piiList) = 1
    /\ piiList[1].text = << "H","e","l","l","o"," ","W","o","r","l","d" >>

\* C2 as stated: for that call the result is one record over word indices 0
\* and 1 with confidence 1.0, produced by the exact strategy.
C2_HelloWorldExact ==
    (pc = "done" /\ C2_HelloWorldCall) =>
        /\ Len(piiData) = 1
        /\ Covered(1) = { 0, 1 }
        /\ piiData[1].confidence = Ratio(1, 1)
        /\ piiData[1].matchType.kind = "exact"

\* C2 amended: for that call the result is one record over word indices 0
\* and 1 with confidence 1.0, produced by the fuzzy strategy (the exact
\* comparison is case-sensitive and finds nothing).
C2_HelloWorldFuzzy ==
    (pc = "done" /\ C2_HelloWorldCall) =>
        /\ Len(piiData) = 1
        /\ Covered(1) = { 0, 1 }
        /\ piiData[1].confidence = Ratio(1, 1)
        /\ piiData[1].matchType.kind = "fuzzy"
        /\ instanceCount = 1

C2_Witness == pc = "done" /\ C2_HelloWorldCall /\ Len(piiData) = 1

\* the phrase is one token of normalized length below 4
SingleShortToken(text) ==
    Len(NormalizedWords(text)) = 1 /\ Len(NormalizedWords(text)[1]) < MinSplitLength

\* C3 as stated: for a phrase that is a single token of normalized length
\* below 4, createSearchVariants returns the base variant and nothing else.
C3_OnlyBaseVariant ==
    (pc = "exact" /\ SingleShortToken(piiList[phraseIdx].text)) =>
        searchVariants = << NormalizedWords(piiList[phraseIdx].text) >>

\* C3 amended: for such a phrase createSearchVariants returns the base
\* variant first and no exhaustive boundary split; every further variant is
\* the split at all letter/digit transitions or the separator expansion, and
\* it returns the base variant alone exactly when the token has no
\* letter/digit transition and the separator expansion equals the base.
C3_NoExhaustiveSplit ==
    (pc = "exact" /\ SingleShortToken(piiList[phraseIdx].text)) =>
        LET text == piiList[phraseIdx].text
            base == NormalizedWords(text)
            token == base[1]
            transition == \E i \in 1..(Len(token) - 1) : IsBoundary(token[i], token[i + 1])
        IN  /\ searchVariants[1] = base
            /\ \A k \in 2..Len(searchVariants) :
                  searchVariants[k] \in { SpacedVariant(token), ExpandHyphens(text) }
            /\ (Len(searchVariants) = 1) <=> (~ transition /\ ExpandHyphens(text) = base)

C3_Witness ==
    /\ pc = "exact"
    /\ SingleShortToken(piiList[phraseIdx].text)
    /\ Len(searchVariants) = 3

\* the normalized words are exactly the base tokens of phrase k and some
\* word has a valid vertex
WordsAreBaseTokens(k) ==
    /\ WordTexts = NormalizedWords(piiList[k].text)
    /\ ValidVertices(words) # << >>

\* C4: when the normalized word list is the sequence of base tokens of a
\* phrase and some word has a valid vertex, the phrase gets exactly one
\* record: exact, confidence 1.0, covering all the words.
C4_BaseSequenceOneRecord ==
    \A k \in Finished :
        WordsAreBaseTokens(k) =>
            \E j \in DOMAIN piiData :
                /\ RecordsOf(k) = { j }
                /\ piiData[j].matchType.kind = "exact"
                /\ piiData[j].confidence = Ratio(1, 1)
                /\ matchedIdx[j].positions = Window(0, Len(words))

C4_Witness ==
    /\ phraseIdx - 1 \in DOMAIN piiList
    /\ pc = "variants"
    /\ WordsAreBaseTokens(phraseIdx - 1)
    /\ Len(words) >= 2
    /\ Len(searchVariants) >= 2
    /\ fuzzyCandidates # << >>

\* C5: the ids of the result list are strictly increasing in output order
\* (so pairwise distinct), across phrases and strategies.
C5_IdsIncrease ==
    \A i, j \in DOMAIN piiData : i < j => piiData[i].id < piiData[j].id

C5_Witness ==
    /\ pc = "done"
    /\ Len(piiData) >= 3
    /\ \E i, j \in DOMAIN piiData :
          /\ matchedIdx[i].phrase # matchedIdx[j].phrase
          /\ piiData[i].matchType.kind = "exact"
          /\ piiData[j].matchType.kind = "fuzzy"

\* the similarity of the window of span words at i to phrase text p, as the
\* pair of the edit distance and the longer length
WindowScore(p, i, span) ==
    LET a == NormalizedPii(p)
        c == Candidate(words, i, span)
    IN  [d |-> distance(a, c), m |-> IF Len(a) > Len(c) THEN Len(a) ELSE Len(c),
         len |-> Len(c)]

\* 1 - d/m >= 0.85, that is 20 (m - d) >= 17 m, for a non-empty window
AtLeast85(score) == score.len > 0 /\ 20 * (score.m - score.d) >= 17 * score.m

\* C6: a window of 1 to min(5, word count) consecutive words is a fuzzy
\* candidate exactly when 1 - distance/max(lengths) >= 0.85 on the
\* normalized lower-cased strings, and every fuzzy record of the returned
\* list covers a window at or above 0.85.
C6_FuzzyThreshold ==
    /\ pc = "fuzzyLoop" =>
          \A span \in 1..(IF Len(words) < 5 THEN Len(words) ELSE 5) :
              \A i \in 0..(Len(words) - span) :
                  (\E k \in DOMAIN fuzzyCandidates :
                        /\ fuzzyCandidates[k].position = i
                        /\ fuzzyCandidates[k].matchedWords = span)
                    <=> AtLeast85(WindowScore(piiList[phraseIdx].text, i, span))
    /\ pc = "fuzzyLoop" =>
          \A k \in DOMAIN fuzzyCandidates :
              /\ fuzzyCandidates[k].matchedWords \in 1..5
              /\ fuzzyCandidates[k].position
                    \in 0..(Len(words) - fuzzyCandidates[k].matchedWords)
    /\ pc = "done" =>
          \A j \in DOMAIN piiData :
              piiData[j].matchType.kind = "fuzzy" =>
                  AtLeast85(WindowScore(piiList[matchedIdx[j].phrase].text,
                                        matchedIdx[j].positions[1],
                                        Len(matchedIdx[j].positions)))

\* a window at exactly 0.85 is a candidate while another window of the same
\* call, not empty, is not
C6_Witness ==
    /\ pc = "fuzzyLoop"
    /\ \E k \in DOMAIN fuzzyCandidates : fuzzyCandidates[k].confidence = Ratio(17, 20)
    /\ \E i \in 0..(Len(words) - 1) :
          LET score == WindowScore(piiList[phraseIdx].text, i, 1)
          IN  score.len > 0 /\ ~ AtLeast85(score)

RECURSIVE Assignments(_, _)
\* the complete assignments of positions to the first k words of a variant:
\* word number m of the variant is given a position whose word text it is
Assignments(variant, k) ==
    IF k = 0 THEN { << >> }
    ELSE { Append(a, p) : a \in Assignments(variant, k - 1),
                          p \in { q \in 0..(Len(words) - 1) : WordTexts[q + 1] = variant[k] } }

\* the assignments findCombinations completes for the current phrase: of the
\* variants of at least 3 words, no position used twice
CompleteAssignments ==
    UNION { { [matchedWords |-> searchVariants[v], positions |-> a] :
                a \in { b \in Assignments(searchVariants[v], Len(searchVariants[v])) :
                          \A m, o \in DOMAIN b : m # o => b[m] # b[o] } } :
            v \in { u \in DOMAIN searchVariants : Len(searchVariants[u]) >= 3 } }

\* max(position) - min(position) + 1
SpanOf(positions) ==
    LET hi == CHOOSE m \in Range(positions) : \A o \in Range(positions) : m >= o
        lo == CHOOSE m \in Range(positions) : \A o \in Range(positions) : m <= o
    IN  hi - lo + 1

\* the assignment is among the matches findFlexibleMatches returned
Kept(a) ==
    \E k \in DOMAIN flexibleMatches :
        /\ flexibleMatches[k].positions = a.positions
        /\ flexibleMatches[k].matchedWords = a.matchedWords

\* C7: findFlexibleMatches keeps a complete assignment of positions only if
\* its span max - min + 1 is at most 20: what it returns has span at most 20
\* and is a complete assignment, and a complete assignment of span at most
\* 20 is returned unless three matches of at least its confidence are.
C7_FlexibleSpan ==
    pc = "flexibleLoop" =>
        /\ \A k \in DOMAIN flexibleMatches :
              /\ SpanOf(flexibleMatches[k].positions) <= 20
              /\ [matchedWords |-> flexibleMatches[k].matchedWords,
                  positions |-> flexibleMatches[k].positions] \in CompleteAssignments
        /\ \A a \in CompleteAssignments :
              SpanOf(a.positions) <= 20 =>
                  \/ Kept(a)
                  \/ /\ Len(flexibleMatches) = 3
                     /\ \A k \in DOMAIN flexibleMatches :
                           SpanOf(flexibleMatches[k].positions) <= SpanOf(a.positions)

\* one assignment of span exactly 20 is kept while another of span 21, over
\* the same words, is not
C7_Witness ==
    /\ pc = "flexibleLoop"
    /\ \E a, b \in CompleteAssignments :
          /\ SpanOf(a.positions) = 20 /\ Kept(a)
          /\ SpanOf(b.positions) = 21 /\ ~ Kept(b)

\* a record without its id
WithoutId(r) ==
    [label |-> r.label, text |-> r.text, bbox |-> r.bbox, vertices |-> r.vertices,
     redacted |-> r.redacted, confidence |-> r.confidence, matchType |-> r.matchType]

\* the records of piiData that phrase number k produced, in output order
RecordsInOrder(k) ==
    LET OfPhrase(j) == matchedIdx[j].phrase = k
    IN  Map(LAMBDA j : WithoutId(piiData[j]), SelectSeq([j \in DOMAIN piiData |-> j], OfPhrase))

\* C8: for a fixed word list, the records of the returned list that a phrase
\* produced (ids excepted, order included) are those of the call made with
\* that phrase alone, whatever phrases precede or follow it in the list.
C8_PhrasesIndependent ==
    pc = "done" =>
        \A k \in DOMAIN piiList :
            RecordsInOrder(k) = Map(WithoutId, mapPiiToBbox(<< piiList[k] >>, words))

\* two different phrases of one call have each produced a record, and the two
\* records cover a common word
C8_Witness ==
    /\ pc = "done"
    /\ \E i, j \in DOMAIN piiData :
          /\ matchedIdx[i].phrase < matchedIdx[j].phrase
          /\ piiList[matchedIdx[i].phrase] # piiList[matchedIdx[j].phrase]
          /\ Covered(i) \cap Covered(j) # { }

\* C9: when the word list is empty the result list is empty, for every
\* phrase list, also for phrases that normalize to the empty string or
\* generate an empty variant.
C9_EmptyWordsNoRecords ==
    words = << >> => piiData = << >>

\* a call without words has returned after an empty variant matched the
\* empty window at position 0
C9_Witness ==
    /\ pc = "done"
    /\ words = << >>
    /\ << >> \in Range(searchVariants)
    /\ piiIdCounter > 0

\* the valid vertices of the words the j-th record covers
ContributingVertices(j) ==
    { v \in UNION { Range(words[p + 1].vertices) : p \in Covered(j) } : v.xNum /\ v.yNum }

\* C10: the box of every record is [x0, y0, x1 - x0, y1 - y0] over all the
\* valid vertices of all the words of the match: there is such a vertex,
\* each lies inside the box, each side of the box touches one, and width and
\* height are not negative; the record's vertices are those vertices.
C10_BoxIsEnvelope ==
    \A j \in DOMAIN piiData :
        LET vs == ContributingVertices(j)
            x0 == piiData[j].bbox[1]
            y0 == piiData[j].bbox[2]
            x1 == x0 + piiData[j].bbox[3]
            y1 == y0 + piiData[j].bbox[4]
        IN  /\ vs # { }
            /\ Len(piiData[j].bbox) = 4
            /\ \A v \in vs : x0 <= v.x /\ v.x <= x1 /\ y0 <= v.y /\ v.y <= y1
            /\ \E v \in vs : v.x = x0
            /\ \E v \in vs : v.x = x1
            /\ \E v \in vs : v.y = y0
            /\ \E v \in vs : v.y = y1
            /\ piiData[j].bbox[3] >= 0 /\ piiData[j].bbox[4] >= 0
            /\ Range(piiData[j].vertices) = vs

\* a record over several slanted words: no single word's vertices span its
\* box, and the box does not start at its first vertex
C10_Witness ==
    \E j \in DOMAIN piiData :
        /\ Cardinality(Covered(j)) >= 2
        /\ piiData[j].vertices[1].x # piiData[j].bbox[1]
        /\ \A p \in Covered(j) :
              \E v \in ContributingVertices(j) :
                  v \notin Range(words[p + 1].vertices)
        /\ \A p \in Covered(j) :
              LET own == { v \in Range(words[p + 1].vertices) : v.xNum /\ v.yNum }
              IN  \/ \A v \in own : v.x > piiData[j].bbox[1]
                  \/ \A v \in own : v.x < piiData[j].bbox[1] + piiData[j].bbox[3]
                  \/ \A v \in own : v.y > piiData[j].bbox[2]
                  \/ \A v \in own : v.y < piiData[j].bbox[2] + piiData[j].bbox[4]

\* some word at the positions has a vertex with a numeric x and a numeric y
HasValidVertex(positions) ==
    \E p \in Range(positions) :
        \E v \in Range(words[p + 1].vertices) : v.xNum /\ v.yNum

\* the occurrences of the variants of the current phrase: variant number v
\* equals the normalized words from position i on, token by token
ExactOccurrences ==
    { o \in [v : DOMAIN searchVariants, i : 0..Len(words)] :
        /\ o.i + Len(searchVariants[o.v]) <= Len(words)
        /\ \A m \in 1..Len(searchVariants[o.v]) : WordTexts[o.i + m] = searchVariants[o.v][m] }

\* an occurrence whose start no other occurrence covers: whatever the order
\* of the scan, its start is unclaimed when the scan reaches it
Isolated(o) ==
    \A o2 \in ExactOccurrences \ { o } :
        o.i \notin o2.i..(o2.i + Len(searchVariants[o2.v]) - 1)

\* the fuzzy matches fuzzyMatchPII returned for the phrase just finished
ReturnedFuzzy == FuzzySelect(fuzzyCandidates)

\* the positions claimed when the fuzzy loop of the phrase just finished
\* began: those the exact and the flexible stage of that phrase claimed,
\* starting from the empty set
ClaimedBeforeFuzzy ==
    LET wordMap == WordMap(words)
        pii == piiList[phraseIdx - 1]
        start == [State EXCEPT !.found = { }, !.count = 0]
        AfterExact == ExactStage(wordMap, pii, phraseIdx - 1, searchVariants, start)
    IN  CallByValue(LAMBDA st : FlexibleStage(wordMap, pii, phraseIdx - 1, searchVariants, st),
                    AfterExact).found

\* C11: an accepted candidate yields a record if and only if some vertex of
\* its words has a numeric x and a numeric y.  For the exact stage: the
\* occurrences of a variant whose start no other occurrence covers.  For the
\* flexible stage: the matches findFlexibleMatches returned, in order.  For
\* the fuzzy stage: the returned fuzzy matches whose start was unclaimed.
\* A candidate without a valid vertex leaves no record and the call goes on.
C11_RecordIffValidVertex ==
    /\ pc = "flexible" =>
          \A o \in ExactOccurrences :
              Isolated(o) =>
                  ((\E j \in RecordsOf(phraseIdx) :
                        /\ piiData[j].matchType = ExactType(searchVariants[o.v])
                        /\ matchedIdx[j].positions = Window(o.i, Len(searchVariants[o.v])))
                    <=> HasValidVertex(Window(o.i, Len(searchVariants[o.v]))))
    /\ (pc = "fuzzy" /\ flexibleMatches # << >>) =>
          LET Positions(m) == m.positions
              Valid(m) == HasValidVertex(m.positions)
              flexible == SelectSeq([j \in DOMAIN piiData |-> j],
                                    LAMBDA j : /\ matchedIdx[j].phrase = phraseIdx
                                               /\ piiData[j].matchType.kind = "flexible")
          IN  [k \in DOMAIN flexible |-> matchedIdx[flexible[k]].positions]
                = Map(Positions, SelectSeq(flexibleMatches, Valid))
    /\ (pc = "variants" /\ phraseIdx > 1) =>
          \A k \in DOMAIN ReturnedFuzzy :
              LET c == ReturnedFuzzy[k]
              IN  (\E j \in RecordsOf(phraseIdx - 1) :
                        /\ piiData[j].matchType.kind = "fuzzy"
                        /\ matchedIdx[j].positions = Window(c.position, c.matchedWords))
                    <=> (/\ c.position \notin ClaimedBeforeFuzzy
                         /\ HasValidVertex(Window(c.position, c.matchedWords)))
    /\ \A j \in DOMAIN piiData : HasValidVertex(matchedIdx[j].positions)

\* a candidate was dropped (its id is missing from the list), the same phrase
\* then produced a record, and so did the next phrase
C11_Witness ==
    /\ pc = "done"
    /\ \E i, j \in DOMAIN piiData :
          /\ matchedIdx[i].phrase = 1
          /\ matchedIdx[j].phrase = 2
          /\ \E d \in 0..(piiData[i].id - 1) :
                \A r \in DOMAIN piiData : piiData[r].id # d

\* the positions of the window of an occurrence, with its start
Reach(o) == { o.i } \cup (o.i..(o.i + Len(searchVariants[o.v]) - 1))

\* a record of the current phrase for the occurrence
Recorded(o) ==
    \E j \in RecordsOf(phraseIdx) :
        /\ piiData[j].matchType = ExactType(searchVariants[o.v])
        /\ matchedIdx[j].positions = Window(o.i, Len(searchVariants[o.v]))

\* C12: after the exact stage of a phrase the start of every occurrence of
\* every variant is claimed (the occurrence was taken as an exact candidate
\* or starts on a position an earlier candidate claimed), and nothing else
\* than starts and windows of occurrences is claimed.
C12_EveryOccurrenceClaimed ==
    pc = "flexible" =>
        /\ \A o \in ExactOccurrences : o.i \in foundPositions
        /\ foundPositions \subseteq UNION { Reach(o) : o \in ExactOccurrences }
        /\ (ExactOccurrences # { }) <=> (instanceCount > 0)

\* one variant occurs twice and both occurrences are recorded, while another
\* occurrence starts on a claimed position and is not recorded
C12_Witness ==
    /\ pc = "flexible"
    /\ \E o1, o2 \in ExactOccurrences :
          /\ o1.v = o2.v /\ o1.i < o2.i
          /\ Recorded(o1) /\ Recorded(o2)
    /\ \E o \in ExactOccurrences : Len(searchVariants[o.v]) > 0 /\ ~ Recorded(o)

\* the kinds of the records phrase number k produced
KindsOf(k) == { piiData[j].matchType.kind : j \in RecordsOf(k) }

\* C13: the flexible stage runs for a phrase exactly when one of its
\* variants has at least 4 tokens and the exact stage found no occurrence
\* of any variant; no phrase has both an exact and a flexible record.
C13_FlexibleTrigger ==
    /\ [][pc = "flexible" =>
            ((pc' = "flexibleLoop")
               <=> (/\ \E k \in DOMAIN searchVariants : Len(searchVariants[k]) >= 4
                    /\ ExactOccurrences = { }))]_vars
    /\ [][pc' = "flexibleLoop" => pc = "flexible"]_vars
    /\ [](\A k \in DOMAIN piiList : ~ ({ "exact", "flexible" } \subseteq KindsOf(k)))

\* the flexible stage ran and produced a record for a phrase that has a
\* variant of at least 4 tokens and no exact occurrence
C13_Witness ==
    /\ pc = "fuzzy"
    /\ "flexible" \in KindsOf(phraseIdx)
    /\ ExactOccurrences = { }

\* the flexible matches returned and the flexible records all have at least
\* n words, each match built from a variant of the phrase
FlexibleAtLeast(n) ==
    /\ pc = "flexibleLoop" =>
          \A k \in DOMAIN flexibleMatches :
              /\ Len(flexibleMatches[k].matchedWords) >= n
              /\ Len(flexibleMatches[k].positions) = Len(flexibleMatches[k].matchedWords)
              /\ flexibleMatches[k].matchedWords \in Range(searchVariants)
    /\ \A j \in DOMAIN piiData :
          piiData[j].matchType.kind = "flexible" =>
              /\ Len(matchedIdx[j].positions) >= n
              /\ piiData[j].matchType.n = Len(matchedIdx[j].positions)

\* C14 as stated: every flexible candidate is built from a variant of at
\* least 4 tokens, so every flexible record covers at least 4 words.
C14_FlexibleAtLeastFour == FlexibleAtLeast(4)

\* C14 amended: every flexible candidate is built from a variant of at least
\* 3 tokens, so every flexible record covers at least 3 words; once the
\* stage is triggered a variant of exactly 3 tokens does contribute: its
\* complete assignments of span at most 20 are returned unless the cut to
\* three matches drops them.
C14_FlexibleAtLeastThree ==
    /\ FlexibleAtLeast(3)
    /\ pc = "flexibleLoop" =>
          \A a \in CompleteAssignments :
              (Len(a.positions) = 3 /\ SpanOf(a.positions) <= 20) =>
                  (Kept(a) \/ Len(flexibleMatches) = 3)

\* a flexible record over exactly 3 words
C14_Witness ==
    \E j \in DOMAIN piiData :
        /\ piiData[j].matchType.kind = "flexible"
        /\ Len(matchedIdx[j].positions) = 3

\* C15: the flexible records emitted for one phrase use pairwise disjoint
\* sets of word positions.
C15_FlexibleDisjoint ==
    \A i, j \in DOMAIN piiData :
        (/\ i # j
         /\ matchedIdx[i].phrase = matchedIdx[j].phrase
         /\ piiData[i].matchType.kind = "flexible"
         /\ piiData[j].matchType.kind = "flexible")
            => Covered(i) \cap Covered(j) = { }

\* C16: the fuzzy stage runs for a phrase if and only if the exact and
\* flexible stages together emitted fewer than 2 records for it (a candidate
\* dropped for lack of valid vertices not counting).
C16_FuzzyTrigger ==
    [][pc = "fuzzy" =>
         ((pc' = "fuzzyLoop") <=> Cardinality(RecordsOf(phraseIdx)) < 2)]_vars

\* the candidates of the current phrase in the order of the sort, and those
\* the filter keeps
SortedCandidates == SortByConfidence(FuzzyScan(WordMap(words), piiList[phraseIdx]))

\* the candidates the filter rejects although no candidate it keeps is
\* nearer than the larger of the two spans
RejectedByRejected(sorted) ==
    LET kept == RemoveOverlapping(sorted)
    IN  { k \in DOMAIN sorted :
            /\ sorted[k].position \notin foundPositions
            /\ \A m \in DOMAIN kept : kept[m] # sorted[k]
            /\ \A m \in DOMAIN kept : ~ Overlapping(kept[m], sorted[k]) }

\* C17: a fuzzy candidate that meets the threshold and starts at an unclaimed
\* position is rejected by the overlap filter only if a candidate the filter
\* accepted starts less than max(span, span) positions away from it.
C17_RejectedOnlyByAccepted ==
    (pc = "fuzzy" /\ FuzzyCondition(instanceCount)) =>
        CallByValue(RejectedByRejected, SortedCandidates) = { }

\* the place of a strategy in the order of the stages
StageOf(kind) == CASE kind = "exact" -> 1 [] kind = "flexible" -> 2 [] OTHER -> 3

\* C18: the list is ordered by phrase in input order; within a phrase the
\* exact records come first, then the flexible ones, then the fuzzy ones;
\* within a group the records stand in the order in which the stage took
\* their candidates (the counter value each candidate was given), which for
\* flexible and fuzzy records is the order of the sorted candidates
\* (confidence descending).
C18_OutputOrder ==
    \A i, j \in DOMAIN piiData :
        i < j =>
          /\ matchedIdx[i].phrase <= matchedIdx[j].phrase
          /\ matchedIdx[i].phrase = matchedIdx[j].phrase =>
                /\ StageOf(piiData[i].matchType.kind) <= StageOf(piiData[j].matchType.kind)
                /\ piiData[i].matchType.kind = piiData[j].matchType.kind =>
                      /\ piiData[i].id < piiData[j].id
                      /\ piiData[i].matchType.kind # "exact"
                            => RatioGeq(piiData[i].confidence, piiData[j].confidence)

C18_Witness ==
    /\ pc = "done"
    /\ \E i, j, k \in DOMAIN piiData :
          /\ i < j /\ j < k
          /\ matchedIdx[i].phrase = 1 /\ matchedIdx[j].phrase = 1
          /\ matchedIdx[k].phrase = 2
          /\ piiData[i].matchType.kind = "exact"
          /\ piiData[j].matchType.kind = "fuzzy"

\* C19: the ids of the list are 0, 1, ..., n - 1 in output order and the
\* counter is the number of records emitted: no dropped candidate leaves a
\* gap.
C19_IdsContiguous ==
    /\ piiIdCounter = Len(piiData)
    /\ \A j \in DOMAIN piiData : piiData[j].id = j - 1

\* the single base token of the current phrase
Token == NormalizedWords(piiList[phraseIdx].text)[1]

\* the current phrase is one to which the exhaustive boundary-split rule
\* applies
SplitRuleApplies == pc = "exact" /\ SplitEligible(NormalizedWords(piiList[phraseIdx].text))

\* the indices at which a split cuts its token
Cuts(split) ==
    { Len(Flatten(SubSeq(split, 1, k))) : k \in 1..(Len(split) - 1) }

\* the first boundary at i + 2 or later, or 0
SecondCut(word, i) ==
    LET js == { j \in (i + 2)..(Len(word) - 1) : BoundaryAt(word, j) }
    IN  IF js = { } THEN 0 ELSE CHOOSE m \in js : \A o \in js : m <= o

\* the starting cuts of the 3-way splits of a word
StartCuts(word) ==
    IF Len(word) >= MinThreeWayLength
    THEN { i \in 2..(Len(word) - 2) : SecondCut(word, i) # 0 }
    ELSE { }

\* C20 as stated: every split of the exhaustive boundary-split rule cuts the
\* token only between a letter and a digit.
C20_CutsAtTransitions ==
    SplitRuleApplies =>
        \A k \in DOMAIN PossibleSplits(Token) :
            \A c \in Cuts(PossibleSplits(Token)[k]) : BoundaryAt(Token, c)

\* C20 amended: the rule emits, as variants, the 2-way split at every
\* letter/digit transition and, for a token of length >= 6, one 3-way split for
\* every index i with 2 <= i <= length - 2 after which a transition lies at
\* i + 2 or later; its second cut is the first such transition and separates
\* a letter from a digit, its starting cut i is any such index, a transition
\* or not.
C20_SecondCutAtTransition ==
    SplitRuleApplies =>
        LET splits == PossibleSplits(Token)
            twoWay == { c \in 1..(Len(Token) - 1) : BoundaryAt(Token, c) }
        IN  /\ \A k \in DOMAIN splits :
                  /\ Flatten(splits[k]) = Token
                  /\ \E m \in DOMAIN searchVariants : searchVariants[m] = splits[k]
                  /\ \/ Len(splits[k]) = 2 /\ Cuts(splits[k]) \subseteq twoWay
                     \/ /\ Len(splits[k]) = 3
                        /\ \E i \in StartCuts(Token) :
                              /\ Cuts(splits[k]) = { i, SecondCut(Token, i) }
                              /\ BoundaryAt(Token, SecondCut(Token, i))
            /\ \A c \in twoWay : \E k \in DOMAIN splits : Cuts(splits[k]) = { c }
            /\ \A i \in StartCuts(Token) :
                  \E k \in DOMAIN splits : Cuts(splits[k]) = { i, SecondCut(Token, i) }

C20_Witness ==
    /\ SplitRuleApplies
    /\ \E k \in DOMAIN PossibleSplits(Token) :
          /\ Len(PossibleSplits(Token)[k]) = 3
          /\ \E c \in Cuts(PossibleSplits(Token)[k]) : ~ BoundaryAt(Token, c)

\* the number lies in [0, 1]
InUnitInterval(c) == c.den > 0 /\ 0 <= c.num /\ c.num <= c.den

\* the confidence the j-th record should carry, from the words it covers
ExpectedConfidence(j) ==
    LET kind == piiData[j].matchType.kind
        positions == matchedIdx[j].positions
    IN  CASE kind = "exact" -> Ratio(1, 1)
          [] kind = "flexible" ->
                LET span == SpanOf(positions)
                IN  IF 100 - span >= 70 THEN Ratio(100 - span, 100) ELSE Ratio(70, 100)
          [] OTHER ->
                LET score == WindowScore(piiList[matchedIdx[j].phrase].text,
                                         positions[1], Len(positions))
                IN  Ratio(score.m - score.d, score.m)

\* C21: every emitted record has a confidence in [0,1]: 1 for an exact
\* record, max(0.7, 1 - span/100) for a flexible record, and for a fuzzy
\* record the similarity 1 - distance/max(lengths) of its window, which lies
\* between 0.85 and 1.
C21_ConfidenceByKind ==
    \A j \in DOMAIN piiData :
        /\ InUnitInterval(piiData[j].confidence)
        /\ piiData[j].confidence = ExpectedConfidence(j)
        /\ piiData[j].matchType.kind = "fuzzy"
              => RatioGeq(piiData[j].confidence, Ratio(85, 100))

C21_Witness ==
    /\ pc = "done"
    /\ \E i, j \in DOMAIN piiData :
          /\ piiData[i].matchType.kind = "flexible"
          /\ piiData[i].confidence # Ratio(1, 1)
          /\ piiData[j].matchType.kind = "fuzzy"
          /\ piiData[j].confidence # Ratio(1, 1)

\* C22: a phrase whose text contains no letter or digit produces no record,
\* whatever the word list.
C22_NoRecordWithoutAlnum ==
    \A j \in DOMAIN matchedIdx : Normalize(piiList[matchedIdx[j].phrase].text) # << >>

\* the callback holds the variants of the current phrase
VariantsKnown == pc \in { "exact", "flexible", "flexibleLoop", "fuzzy", "fuzzyLoop" }

\* the normalized texts of the words a record covers, concatenated
CoveredText(j) == Flatten([m \in DOMAIN matchedIdx[j].positions |->
                             Normalize(words[matchedIdx[j].positions[m] + 1].text)])

\* C23: all variants of a phrase concatenate to the phrase with every
\* non-alphanumeric character removed, and so do the normalized words of
\* every exact record.
C23_VariantsConcatenate ==
    /\ VariantsKnown =>
          LET normalized == Normalize(piiList[phraseIdx].text)
          IN  \A v \in DOMAIN searchVariants :
                  Flatten(searchVariants[v]) = normalized
    /\ \A j \in DOMAIN piiData :
          piiData[j].matchType.kind = "exact" =>
              /\ CoveredText(j) = Normalize(piiList[matchedIdx[j].phrase].text)
              /\ Flatten(piiData[j].matchType.variant) = CoveredText(j)

C23_Witness ==
    /\ pc = "flexible"
    /\ Len(searchVariants) >= 5
    /\ \E v \in DOMAIN searchVariants : Len(searchVariants[v]) = 3
    /\ \E j \in DOMAIN piiData :
          /\ matchedIdx[j].phrase = phraseIdx
          /\ piiData[j].matchType.kind = "exact"
          /\ Len(matchedIdx[j].positions) >= 2

\* C24: the floor 0.7 of max(0.7, 1 - span/100) is never the value taken:
\* every match findFlexibleMatches returns and every flexible record has
\* confidence exactly 1 - span/100, which is at least 0.80.
C24_FloorNeverTaken ==
    /\ pc = "flexibleLoop" =>
          \A k \in DOMAIN flexibleMatches :
              /\ flexibleMatches[k].confidence
                    = Ratio(100 - SpanOf(flexibleMatches[k].positions), 100)
              /\ RatioGeq(flexibleMatches[k].confidence, Ratio(80, 100))
    /\ \A j \in DOMAIN piiData :
          piiData[j].matchType.kind = "flexible" =>
              /\ piiData[j].confidence = Ratio(100 - SpanOf(matchedIdx[j].positions), 100)
              /\ RatioGeq(piiData[j].confidence, Ratio(80, 100))
              /\ RatioGt(piiData[j].confidence, Ratio(FlexibleFloor, 100))

C24_Witness ==
    /\ pc = "done"
    /\ \E j \in DOMAIN piiData :
          /\ piiData[j].matchType.kind = "flexible"
          /\ SpanOf(matchedIdx[j].positions) = MaxFlexibleSpan
          /\ piiData[j].confidence = Ratio(80, 100)

====
